---- MODULE Spec2Model ----
(***************************************************************************)
(* Model of lib/luxafor.js (class Luxafor): the command encoder, the reply *)
(* classifier and the read waits of a Luxafor USB light session.           *)
(*                                                                         *)
(* lib/constants.js and lib/promise-vs-timeout.js are required by the      *)
(* source but are not part of it; the tables API_* and the operator        *)
(* commit below are modelled from the specification.                       *)
(***************************************************************************)
EXTENDS Integers, Sequences, FiniteSets, TLC

(***************************************************************************)
(* Bounds of the model.                                                    *)
(***************************************************************************)
MaxCalls == 2        \* method invocations on one session after init
MaxBufLen == 3       \* longest reply buffer handed to findApiReply

(***************************************************************************)
(* API constants (lib/constants.js).                                       *)
(***************************************************************************)
SET_COLOR_SIMPLE == 0
SET_COLOR_NO_FADE == 1
SET_COLOR_FADE == 2
STROBE == 3
WAVE == 4
PATTERN == 6
DEVICE_INFO == 128

BYTE_COMMAND == 0
BYTE_LED == 1
BYTE_RED == 2
BYTE_GREEN == 3
BYTE_BLUE == 4
BYTE_TIME == 5
BYTE_STROBE_PADDING == 6
BYTE_STROBE_REPEAT == 7
BYTE_WAVE_TYPE == 1
BYTE_WAVE_PADDING == 5
BYTE_WAVE_REPEAT == 6
BYTE_WAVE_SPEED == 7
BYTE_PATTERN_ID == 1
BYTE_PATTERN_REPEAT == 2

\* API.REPLY: the known reply signatures, in the enumeration order of
\* Object.keys.  Two keys may carry the same signature; no signature starts
\* with the DEVICE_INFO opcode.
API_REPLY ==
  << [key |-> "ACK",      value |-> <<1, 0>>],
     [key |-> "NACK",     value |-> <<1, 1>>],
     [key |-> "ACK_ALT",  value |-> <<1, 0>>],
     [key |-> "BUSY",     value |-> <<0, 1>>] >>

\* the timeout handed to PromiseVsTimeout.commit by readFromDeviceUntil
TIMEOUT_MS == 1900

(***************************************************************************)
(* Buffers are sequences of bytes; offset k of the source is index k + 1.  *)
(***************************************************************************)
Min(a, b) == IF a < b THEN a ELSE b

\* Buffer.prototype.compare on two byte ranges: -1, 0 or 1, lexicographic
RECURSIVE CompareBytes(_, _)
CompareBytes(s, t) ==
  IF s = <<>> /\ t = <<>> THEN 0
  ELSE IF s = <<>> THEN -1
  ELSE IF t = <<>> THEN 1
  ELSE IF Head(s) < Head(t) THEN -1
  ELSE IF Head(s) > Head(t) THEN 1
  ELSE CompareBytes(Tail(s), Tail(t))

\* source.compare(target, targetStart, targetEnd, sourceStart, sourceEnd)
compare(source, target, targetStart, targetEnd, sourceStart, sourceEnd) ==
  CompareBytes(SubSeq(source, sourceStart + 1, Min(sourceEnd, Len(source))),
               SubSeq(target, targetStart + 1, Min(targetEnd, Len(target))))

\* JavaScript truthiness of a number used as an if condition
Truthy(n) == n # 0

Null == "null"

(***************************************************************************)
(* Reply classifier.                                                       *)
(***************************************************************************)
\* static getApiValue('reply', needle): the value stored under the key, or
\* null; the keys of the table are already upper case
getApiValue(haystack, needle) ==
  IF \E i \in 1..Len(haystack) : haystack[i].key = needle
  THEN haystack[CHOOSE i \in 1..Len(haystack) : haystack[i].key = needle].value
  ELSE Null

\* isDeviceInfoBuffer that reads offset 1
isDeviceInfoBuffer_offset1(buffer) ==
  IF Len(buffer) >= 2 /\ buffer[2] = DEVICE_INFO THEN TRUE ELSE FALSE

\* static isDeviceInfoBuffer(buffer)
isDeviceInfoBuffer(buffer) ==
  IF Len(buffer) >= 1 /\ buffer[1] = DEVICE_INFO THEN TRUE ELSE FALSE

\* the for loop of findApiReply from position index (0-based) on; the
\* result is the returned key, or threw = TRUE for the thrown Error
RECURSIVE findApiReplyFrom(_, _)
findApiReplyFrom(buffer, index) ==
  IF index < Len(API_REPLY)
  THEN LET key == API_REPLY[index + 1].key
           value == getApiValue(API_REPLY, key)
       IN IF compare(buffer, value, 0, 2, 0, 2) = 0
          THEN [threw |-> FALSE, value |-> key]
          ELSE findApiReplyFrom(buffer, index + 1)
  ELSE IF isDeviceInfoBuffer(buffer)
       THEN [threw |-> FALSE, value |-> "DEVICE_INFO"]
       ELSE [threw |-> TRUE, value |-> "Error"]

\* findApiReply whose loop starts at index 1
findApiReply_from1(buffer) == findApiReplyFrom(buffer, 1)

\* findApiReply that returns null where the source throws
findApiReply_null(buffer) ==
  LET r == findApiReplyFrom(buffer, 0)
  IN IF r.threw THEN [threw |-> FALSE, value |-> Null] ELSE r

\* static findApiReply(buffer)
findApiReply(buffer) == findApiReplyFrom(buffer, 0)

(***************************************************************************)
(* Write buffer: bytes, and how many times each offset has been written    *)
(* since the buffer was allocated.                                         *)
(***************************************************************************)
\* resetWriteBuffer that clears and keeps the Buffer object it has
resetWriteBuffer_reuse(size, fill) ==
  [bytes |-> [i \in 1..size |-> fill],
   count |-> [i \in 1..size |-> 0],
   threw |-> FALSE,
   fresh |-> FALSE]

\* resetWriteBuffer(size): a new Buffer object (fresh) replaces this.buffer;
\* new Buffer(size) is not initialised by every runtime, fill stands for the
\* content it comes with
resetWriteBuffer(size, fill) ==
  [bytes |-> [i \in 1..size |-> fill],
   count |-> [i \in 1..size |-> 0],
   threw |-> FALSE,
   fresh |-> TRUE]

\* setWriteBufferByte that stores the low 8 bits of any value
setWriteBufferByte_truncate(b, byte, data) ==
  IF b.threw THEN b
  ELSE IF byte \notin 0..(Len(b.bytes) - 1)
  THEN [b EXCEPT !.threw = TRUE]
  ELSE [b EXCEPT !.bytes[byte + 1] = data % 256,
                 !.count[byte + 1] = b.count[byte + 1] + 1]

\* setWriteBufferByte(byte, data): buffer.writeUInt8(data, byte) throws for
\* a value outside 0..255 or an offset outside the buffer; after a throw
\* the rest of the method does not run
setWriteBufferByte(b, byte, data) ==
  IF b.threw THEN b
  ELSE IF data \notin 0..255 \/ byte \notin 0..(Len(b.bytes) - 1)
  THEN [b EXCEPT !.threw = TRUE]
  ELSE [b EXCEPT !.bytes[byte + 1] = data,
                 !.count[byte + 1] = b.count[byte + 1] + 1]

(***************************************************************************)
(* State of one session.                                                   *)
(***************************************************************************)
VARIABLES
  setup,       \* the transport calls made by init, in order
  buffer,      \* this.buffer: the bytes of the write buffer
  written,     \* per offset of this.buffer: number of writes since allocation
  wire,        \* the transfers submitted on the write endpoint, in order
  acked,       \* how many of them have had their completion callback fired
  cbCalls,     \* how many caller callbacks have been invoked
  told,        \* per completed transfer: its result and what the caller got
  heap,        \* the Buffer objects allocated so far, by identity
  calls,       \* method invocations so far
  last,        \* the most recent method invocation and how it ended
  listener,    \* the 'data' listener of the read endpoint: 0 or a wait
  pollActive,  \* polling on the read endpoint is running
  late,        \* data events already queued when polling was stopped
  waits,       \* the promises returned by readFromDeviceUntil/getDeviceInfo
  reply,       \* the buffer last handed to findApiReply
  outcome      \* what findApiReply did with it

vars == << setup, buffer, written, wire, acked, cbCalls, told, heap, calls, last,
           listener, pollActive, late, waits, reply, outcome >>

writeVars == << buffer, written, wire, heap, calls, last >>
ackVars == << acked, cbCalls, told >>
readVars == << listener, pollActive, late, waits >>
classifyVars == << reply, outcome >>

\* startPoll(2, 8): the number of transfers kept in flight while polling
POLL_TRANSFERS == 2

opened == setup # <<>>

NoCall == [op |-> "none", args |-> <<>>, threw |-> FALSE]

Init ==
  /\ setup = <<>>
  /\ buffer = <<>>
  /\ written = <<>>
  /\ wire = <<>>
  /\ acked = 0
  /\ cbCalls = 0
  /\ told = <<>>
  /\ heap = <<>>
  /\ calls = 0
  /\ last = NoCall
  /\ listener = 0
  /\ pollActive = FALSE
  /\ late = 0
  /\ waits = <<>>
  /\ reply = <<>>
  /\ outcome = [threw |-> FALSE, value |-> Null]

(***************************************************************************)
(* Write side.                                                             *)
(***************************************************************************)
\* writeToDevice that submits ahead of the transfers already submitted
writeToDevice_front(buf, callback) ==
  wire' = <<[frame |-> buf, cb |-> callback, ref |-> Len(heap')]>> \o wire

\* writeToDevice(callback): one transfer of this.buffer on the write
\* endpoint; the callback is kept for the completion.  The transport is
\* handed the Buffer object itself (ref), frame is its content at that time
writeToDevice(buf, callback) ==
  wire' = Append(wire, [frame |-> buf, cb |-> callback, ref |-> Len(heap')])

\* init that writes the dummy frame before claiming the interface
init_writeFirst(cb, kernelDriverActive) ==
  /\ ~opened
  /\ setup' = <<"open">>
              \o (IF kernelDriverActive THEN <<"detachKernelDriver">> ELSE <<>>)
              \o <<"endpoint", "endpoint", "transfer", "claim">>
  /\ buffer' = <<0, 0>>
  /\ written' = <<1, 1>>
  /\ heap' = Append(heap, buffer')
  /\ writeToDevice(buffer', cb)
  /\ last' = [op |-> "init", args |-> <<kernelDriverActive>>, threw |-> FALSE]
  /\ UNCHANGED << ackVars, calls, readVars, classifyVars >>

\* init(cb): the transport calls are logged in setup, the transfer of the
\* dummy frame included
init(cb, kernelDriverActive) ==
  /\ ~opened
  /\ setup' = <<"open">>
              \o (IF kernelDriverActive THEN <<"detachKernelDriver">> ELSE <<>>)
              \o <<"claim", "endpoint", "endpoint", "transfer">>
  /\ buffer' = <<0, 0>>
  /\ written' = <<1, 1>>
  /\ heap' = Append(heap, buffer')
  /\ writeToDevice(buffer', cb)
  /\ last' = [op |-> "init", args |-> <<kernelDriverActive>>, threw |-> FALSE]
  /\ UNCHANGED << ackVars, calls, readVars, classifyVars >>

\* the tail shared by the command methods: the buffer b the method built is
\* this.buffer; unless a write threw, it is handed to writeToDevice
Command(op, args, b, cb) ==
  /\ opened
  /\ calls < MaxCalls
  /\ calls' = calls + 1
  /\ buffer' = b.bytes
  /\ written' = b.count
  /\ last' = [op |-> op, args |-> args, threw |-> b.threw]
  /\ heap' = IF b.fresh THEN Append(heap, b.bytes)
             ELSE [heap EXCEPT ![Len(heap)] = b.bytes]
  /\ IF b.threw THEN wire' = wire ELSE writeToDevice(b.bytes, cb)
  /\ UNCHANGED << setup, ackVars, classifyVars >>

\* simpleColor(char, cb)
simpleColor(char, cb, fill) ==
  LET b0 == resetWriteBuffer(2, fill)
      b1 == setWriteBufferByte(b0, BYTE_COMMAND, SET_COLOR_SIMPLE)
      b2 == setWriteBufferByte(b1, 1, char)
  IN Command("simpleColor", <<char>>, b2, cb) /\ UNCHANGED readVars

\* color(led, red, green, blue, cb)
color(led, red, green, blue, cb, fill) ==
  LET b0 == resetWriteBuffer(5, fill)
      b1 == setWriteBufferByte(b0, BYTE_COMMAND, SET_COLOR_NO_FADE)
      b2 == setWriteBufferByte(b1, BYTE_LED, led)
      b3 == setWriteBufferByte(b2, BYTE_RED, red)
      b4 == setWriteBufferByte(b3, BYTE_GREEN, green)
      b5 == setWriteBufferByte(b4, BYTE_BLUE, blue)
  IN Command("color", <<led, red, green, blue>>, b5, cb) /\ UNCHANGED readVars

\* colorFade(led, red, green, blue, time, cb)
colorFade(led, red, green, blue, time, cb, fill) ==
  LET b0 == resetWriteBuffer(6, fill)
      b1 == setWriteBufferByte(b0, BYTE_COMMAND, SET_COLOR_FADE)
      b2 == setWriteBufferByte(b1, BYTE_LED, led)
      b3 == setWriteBufferByte(b2, BYTE_RED, red)
      b4 == setWriteBufferByte(b3, BYTE_GREEN, green)
      b5 == setWriteBufferByte(b4, BYTE_BLUE, blue)
      b6 == setWriteBufferByte(b5, BYTE_TIME, time)
  IN Command("colorFade", <<led, red, green, blue, time>>, b6, cb)
     /\ UNCHANGED readVars

\* strobe that leaves the padding offset unwritten
strobe_nopad(led, red, green, blue, time, repeat, cb, fill) ==
  LET b0 == resetWriteBuffer(8, fill)
      b1 == setWriteBufferByte(b0, BYTE_COMMAND, STROBE)
      b2 == setWriteBufferByte(b1, BYTE_LED, led)
      b3 == setWriteBufferByte(b2, BYTE_RED, red)
      b4 == setWriteBufferByte(b3, BYTE_GREEN, green)
      b5 == setWriteBufferByte(b4, BYTE_BLUE, blue)
      b6 == setWriteBufferByte(b5, BYTE_TIME, time)
      b8 == setWriteBufferByte(b6, BYTE_STROBE_REPEAT, repeat)
  IN Command("strobe", <<led, red, green, blue, time, repeat>>, b8, cb)
     /\ UNCHANGED readVars

\* strobe(led, red, green, blue, time, repeat, cb)
strobe(led, red, green, blue, time, repeat, cb, fill) ==
  LET b0 == resetWriteBuffer(8, fill)
      b1 == setWriteBufferByte(b0, BYTE_COMMAND, STROBE)
      b2 == setWriteBufferByte(b1, BYTE_LED, led)
      b3 == setWriteBufferByte(b2, BYTE_RED, red)
      b4 == setWriteBufferByte(b3, BYTE_GREEN, green)
      b5 == setWriteBufferByte(b4, BYTE_BLUE, blue)
      b6 == setWriteBufferByte(b5, BYTE_TIME, time)
      b7 == setWriteBufferByte(b6, BYTE_STROBE_PADDING, 0)
      b8 == setWriteBufferByte(b7, BYTE_STROBE_REPEAT, repeat)
  IN Command("strobe", <<led, red, green, blue, time, repeat>>, b8, cb)
     /\ UNCHANGED readVars

\* wave(type, red, green, blue, repeat, speed, cb)
wave(type, red, green, blue, repeat, speed, cb, fill) ==
  LET b0 == resetWriteBuffer(8, fill)
      b1 == setWriteBufferByte(b0, BYTE_COMMAND, WAVE)
      b2 == setWriteBufferByte(b1, BYTE_WAVE_TYPE, type)
      b3 == setWriteBufferByte(b2, BYTE_RED, red)
      b4 == setWriteBufferByte(b3, BYTE_GREEN, green)
      b5 == setWriteBufferByte(b4, BYTE_BLUE, blue)
      b6 == setWriteBufferByte(b5, BYTE_WAVE_PADDING, 0)
      b7 == setWriteBufferByte(b6, BYTE_WAVE_REPEAT, repeat)
      b8 == setWriteBufferByte(b7, BYTE_WAVE_SPEED, speed)
  IN Command("wave", <<type, red, green, blue, repeat, speed>>, b8, cb)
     /\ UNCHANGED readVars

\* pattern that also starts polling the read endpoint
pattern_poll(pat, repeat, cb, fill) ==
  LET b0 == resetWriteBuffer(3, fill)
      b1 == setWriteBufferByte(b0, BYTE_COMMAND, PATTERN)
      b2 == setWriteBufferByte(b1, BYTE_PATTERN_ID, pat)
      b3 == setWriteBufferByte(b2, BYTE_PATTERN_REPEAT, repeat)
  IN /\ Command("pattern", <<pat, repeat>>, b3, cb)
     /\ pollActive' = TRUE
     /\ UNCHANGED << listener, late, waits >>

\* pattern(pattern, repeat, cb)
pattern(pat, repeat, cb, fill) ==
  LET b0 == resetWriteBuffer(3, fill)
      b1 == setWriteBufferByte(b0, BYTE_COMMAND, PATTERN)
      b2 == setWriteBufferByte(b1, BYTE_PATTERN_ID, pat)
      b3 == setWriteBufferByte(b2, BYTE_PATTERN_REPEAT, repeat)
  IN Command("pattern", <<pat, repeat>>, b3, cb) /\ UNCHANGED readVars

\* the completion function handed to transfer (lines 78-82) runs for the
\* oldest transfer still in flight, with the error of the transfer if it
\* failed; it takes no parameter and invokes the caller's callback, if any,
\* without arguments
TransferDone(error) ==
  /\ acked < Len(wire)
  /\ acked' = acked + 1
  /\ cbCalls' = IF wire[acked + 1].cb THEN cbCalls + 1 ELSE cbCalls
  /\ told' = Append(told, [error |-> error,
                           callback |-> IF wire[acked + 1].cb THEN "called"
                                        ELSE "none"])
  /\ UNCHANGED << setup, writeVars, readVars, classifyVars >>

(***************************************************************************)
(* Read side.  A wait is the promise one call returned: its state, the     *)
(* outcomes its caller has observed, its timer, how often its 'data'       *)
(* listener was registered and removed, and whether that listener has let *)
(* a buffer pass without taking it.                                        *)
(***************************************************************************)
\* resolve that reaches the caller whatever the state of the promise
resolve_always(w, buf) ==
  [w EXCEPT !.state = "resolved", !.value = buf,
            !.observed = Append(w.observed, "frame")]

\* new Promise(executor) / resolve(buffer): a promise settles only while it
\* is pending; the caller's handlers then observe the outcome
resolve(w, buf) ==
  IF w.state = "pending"
  THEN [w EXCEPT !.state = "resolved", !.value = buf,
                 !.observed = Append(w.observed, "frame")]
  ELSE w

\* the executor threw: the promise is rejected with the thrown error
rejectThrown(w) ==
  IF w.state = "pending"
  THEN [w EXCEPT !.state = "error", !.observed = Append(w.observed, "error")]
  ELSE w

\* PromiseVsTimeout.commit(ms, executor): the promise of the executor raced
\* against a one-shot timer of ms milliseconds
commit(ms, w) == [w EXCEPT !.timer = "armed", !.ms = ms]

\* the timer of commit fires: a timeout failure unless already settled
timeout(w) ==
  LET f == [w EXCEPT !.timer = "fired"]
  IN IF w.state = "pending"
     THEN [f EXCEPT !.state = "timedout",
                    !.observed = Append(w.observed, "WaitTimedOut")]
     ELSE f

\* removeAllListeners that removes nothing
removeAllListeners_none(ws) == ws

\* readEndpoint.removeAllListeners('data')
removeAllListeners(ws) ==
  IF listener = 0 THEN ws
  ELSE [ws EXCEPT ![listener].unsubs = ws[listener].unsubs + 1]

\* readEndpoint.on('data', ...) for the wait about to be appended to ws
on(kind, type) ==
  [kind |-> kind, type |-> type, state |-> "pending", value |-> <<>>,
   observed |-> <<>>, timer |-> "none", ms |-> 0, subs |-> 1, unsubs |-> 0,
   ignored |-> FALSE]

\* readEndpoint.startPoll(2, 8): the transport may throw when polling is
\* already running
startPoll(active, throws) == [active |-> TRUE, threw |-> active /\ throws]

\* readEndpoint.stopPoll(): the transport may throw when polling is not
\* running
stopPoll(active, throws) == [active |-> FALSE, threw |-> ~active /\ throws]

\* the executor of lines 90-99 and of lines 273-282
Executor(kind, type, throws) ==
  LET sp == startPoll(pollActive, throws)
      w == on(kind, type)
  IN [w |-> IF sp.threw THEN rejectThrown(w) ELSE w, active |-> sp.active]

\* readFromDeviceUntil(type)
readFromDeviceUntil(type, throws) ==
  LET e == Executor("until", type, throws)
  IN /\ opened
     /\ calls < MaxCalls
     /\ calls' = calls + 1
     /\ last' = [op |-> "readFromDeviceUntil", args |-> <<type>>,
                 threw |-> FALSE]
     /\ waits' = Append(removeAllListeners(waits), commit(TIMEOUT_MS, e.w))
     /\ listener' = Len(waits) + 1
     /\ pollActive' = e.active
     /\ UNCHANGED << setup, buffer, written, wire, heap, ackVars, late,
                     classifyVars >>

\* getDeviceInfo that leaves a listener already registered in place
getDeviceInfo_keep(fill, throws) ==
  LET b0 == resetWriteBuffer(1, fill)
      b1 == setWriteBufferByte(b0, BYTE_COMMAND, DEVICE_INFO)
      e == Executor("info", <<>>, throws)
  IN /\ Command("getDeviceInfo", <<>>, b1, FALSE)
     /\ waits' = Append(waits, e.w)
     /\ listener' = IF listener = 0 THEN Len(waits) + 1 ELSE listener
     /\ pollActive' = e.active
     /\ UNCHANGED late

\* getDeviceInfo()
getDeviceInfo(fill, throws) ==
  LET b0 == resetWriteBuffer(1, fill)
      b1 == setWriteBufferByte(b0, BYTE_COMMAND, DEVICE_INFO)
      e == Executor("info", <<>>, throws)
  IN /\ Command("getDeviceInfo", <<>>, b1, FALSE)
     /\ waits' = Append(removeAllListeners(waits), e.w)
     /\ listener' = Len(waits) + 1
     /\ pollActive' = e.active
     /\ UNCHANGED late

\* accepts whose getDeviceInfo listener takes every buffer
accepts_any(w, buf) ==
  IF w.kind = "until"
  THEN Truthy(compare(buf, w.type, 0, 2, 0, 2))
  ELSE TRUE

\* the condition under which the registered listener takes the buffer
\* (line 93 for readFromDeviceUntil, line 276 for getDeviceInfo)
accepts(w, buf) ==
  IF w.kind = "until"
  THEN Truthy(compare(buf, w.type, 0, 2, 0, 2))
  ELSE isDeviceInfoBuffer(buf)

\* the read endpoint emits 'data' with buf; queued is the number of data
\* events still queued behind it if this one stops the polling
Data(buf, throws, queued) ==
  /\ opened
  /\ pollActive \/ late > 0
  /\ IF listener # 0 /\ accepts(waits[listener], buf)
     THEN LET sp == stopPoll(pollActive, throws)
          IN /\ pollActive' = sp.active
             /\ late' = IF pollActive THEN queued ELSE late - 1
             /\ waits' = IF sp.threw THEN waits
                         ELSE [waits EXCEPT ![listener] = resolve(@, buf)]
     ELSE /\ late' = IF pollActive THEN late ELSE late - 1
          /\ waits' = IF listener = 0 THEN waits
                      ELSE [waits EXCEPT ![listener].ignored = TRUE]
          /\ UNCHANGED pollActive
  /\ UNCHANGED << setup, writeVars, ackVars, listener, classifyVars >>

\* the timer armed by commit for wait id fires
TimerFire(id) ==
  /\ id \in 1..Len(waits)
  /\ waits[id].timer = "armed"
  /\ waits' = [waits EXCEPT ![id] = timeout(@)]
  /\ UNCHANGED << setup, writeVars, ackVars, listener, pollActive,
                  late, classifyVars >>

\* a caller classifies a buffer
Classify(buf) ==
  /\ reply' = buf
  /\ outcome' = findApiReply(buf)
  /\ UNCHANGED << setup, writeVars, ackVars, readVars >>

(***************************************************************************)
(* Inputs.                                                                 *)
(***************************************************************************)
\* field values tried by the encoder: in range, and one past each end of
\* the range
Fields == {-1, 0, 7, 255, 256}
\* the content a fresh buffer may come with
Fills == {0, 170}
\* field value of the commands issued next to the read waits
SessionFields == {7}
\* the types a caller waits for: reply signatures
Types == { getApiValue(API_REPLY, "ACK"), getApiValue(API_REPLY, "BUSY") }
\* bytes of incoming buffers
ReplyBytes == {0, 1, DEVICE_INFO}
\* the buffers the read endpoint delivers
Frames == Types \cup { <<DEVICE_INFO, 0>>, <<DEVICE_INFO, 1>> }
\* the buffers handed to findApiReply
Buffers == UNION { [1..n -> ReplyBytes \cup {2, 255}] : n \in 2..MaxBufLen }

WriteCommands(F, CB, G) ==
  \/ \E char \in F, cb \in CB, fill \in G : simpleColor(char, cb, fill)
  \/ \E led, red, green, blue \in F, cb \in CB, fill \in G :
       color(led, red, green, blue, cb, fill)
  \/ \E led, red, green, blue, time \in F, cb \in CB, fill \in G :
       colorFade(led, red, green, blue, time, cb, fill)
  \/ \E led, red, green, blue, time, repeat \in F, cb \in CB, fill \in G :
       strobe(led, red, green, blue, time, repeat, cb, fill)
  \/ \E type, red, green, blue, repeat, speed \in F, cb \in CB, fill \in G :
       wave(type, red, green, blue, repeat, speed, cb, fill)
  \/ \E pat, repeat \in F, cb \in CB, fill \in G : pattern(pat, repeat, cb, fill)

Next ==
  \/ \E kda \in BOOLEAN : init(TRUE, kda)
  \/ WriteCommands(SessionFields, {TRUE}, {0})
  \/ \E fill \in Fills, throws \in BOOLEAN : getDeviceInfo(fill, throws)
  \/ \E type \in Types, throws \in BOOLEAN : readFromDeviceUntil(type, throws)
  \/ \E buf \in Frames, throws \in BOOLEAN, queued \in 0..(POLL_TRANSFERS - 1) :
       Data(buf, throws, queued)
  \/ \E id \in 1..MaxCalls : TimerFire(id)
  \/ TransferDone(FALSE)

Spec == Init /\ [][Next]_vars

\* one command on a fresh session, over the wide field values
NextEncode ==
  \/ \E kda \in BOOLEAN : init(TRUE, kda)
  \/ calls = 0 /\ WriteCommands(Fields, BOOLEAN, Fills)
  \/ calls = 0 /\ \E fill \in Fills : getDeviceInfo(fill, FALSE)

SpecEncode == Init /\ [][NextEncode]_vars

\* findApiReply applied to each buffer
NextClassify == \E buf \in Buffers : Classify(buf)

SpecClassify == Init /\ [][NextClassify]_vars

\* a session whose read endpoint never emits data; timers that are armed
\* fire and transfers complete
NextQuiet ==
  \/ \E kda \in BOOLEAN : init(TRUE, kda)
  \/ WriteCommands(SessionFields, {TRUE}, {0})
  \/ \E fill \in Fills, throws \in BOOLEAN : getDeviceInfo(fill, throws)
  \/ \E type \in Types, throws \in BOOLEAN : readFromDeviceUntil(type, throws)
  \/ \E id \in 1..MaxCalls : TimerFire(id)
  \/ TransferDone(FALSE)

SpecQuiet ==
  /\ Init
  /\ [][NextQuiet]_vars
  /\ WF_vars(\E id \in 1..MaxCalls : TimerFire(id))
  /\ WF_vars(TransferDone(FALSE))

\* the write side alone, with transfers that complete or fail
NextTransfer ==
  \/ \E kda \in BOOLEAN : init(TRUE, kda)
  \/ WriteCommands(SessionFields, BOOLEAN, {0})
  \/ \E error \in BOOLEAN : TransferDone(error)

SpecTransfer == Init /\ [][NextTransfer]_vars

(***************************************************************************)
(* Properties.                                                             *)
(***************************************************************************)
CommandOps == {"simpleColor", "color", "colorFade", "strobe", "wave",
               "pattern", "getDeviceInfo"}

\* the frame layout table of the protocol
Documented(op, a) ==
  CASE op = "simpleColor" -> <<SET_COLOR_SIMPLE, a[1]>>
    [] op = "color" -> <<SET_COLOR_NO_FADE, a[1], a[2], a[3], a[4]>>
    [] op = "colorFade" -> <<SET_COLOR_FADE, a[1], a[2], a[3], a[4], a[5]>>
    [] op = "strobe" -> <<STROBE, a[1], a[2], a[3], a[4], a[5], 0, a[6]>>
    [] op = "wave" -> <<WAVE, a[1], a[2], a[3], a[4], 0, a[5], a[6]>>
    [] op = "pattern" -> <<PATTERN, a[1], a[2]>>
    [] op = "getDeviceInfo" -> <<DEVICE_INFO>>

DocumentedLen(op) ==
  CASE op = "simpleColor" -> 2
    [] op = "color" -> 5
    [] op = "colorFade" -> 6
    [] op = "strobe" -> 8
    [] op = "wave" -> 8
    [] op = "pattern" -> 3
    [] op = "getDeviceInfo" -> 1

InRange(a) == \A i \in DOMAIN a : a[i] \in 0..255

\* C6: after a command method called with all fields in 0..255, the frame
\* handed to the transport has the documented length, holds each input field
\* at its documented offset and 0 at the padding offsets, and every offset
\* of the fresh buffer has been written exactly once.
C6_FrameLayout ==
  (last.op \in CommandOps /\ InRange(last.args)) =>
    /\ ~last.threw
    /\ wire # <<>>
    /\ wire[Len(wire)].frame = Documented(last.op, last.args)
    /\ Len(wire[Len(wire)].frame) = DocumentedLen(last.op)
    /\ buffer = wire[Len(wire)].frame
    /\ written = [i \in 1..DocumentedLen(last.op) |-> 1]

\* a strobe with non-zero fields went out with 0 at the padding offset
C6_Witness ==
  /\ last.op = "strobe"
  /\ last.args = <<255, 7, 255, 7, 255, 7>>
  /\ wire[Len(wire)].frame = <<STROBE, 255, 7, 255, 7, 255, 0, 7>>

\* the positions of API.REPLY whose signature equals the first two bytes
Matching(buf) ==
  { i \in 1..Len(API_REPLY) : API_REPLY[i].value = SubSeq(buf, 1, 2) }

First(S) == CHOOSE i \in S : \A j \in S : i <= j

\* C7: for a buffer of at least 2 bytes findApiReply produces exactly one
\* outcome: the key of the first signature, in enumeration order, equal to
\* the first two bytes, whatever follows them; DEVICE_INFO only when no
\* signature matches and byte 0 is the opcode; the error only when neither.
C7_ClassifyTotal ==
  Len(reply) >= 2 =>
    IF Matching(reply) # {}
    THEN outcome = [threw |-> FALSE,
                    value |-> API_REPLY[First(Matching(reply))].key]
    ELSE IF reply[1] = DEVICE_INFO
    THEN outcome = [threw |-> FALSE, value |-> "DEVICE_INFO"]
    ELSE outcome.threw

\* a 3-byte buffer matching two signatures got the key of the first
C7_Witness ==
  /\ reply = <<1, 0, 255>>
  /\ outcome = [threw |-> FALSE, value |-> "ACK"]

\* C8: a buffer whose leading byte is the DEVICE_INFO opcode is classified
\* DEVICE_INFO whatever its trailing bytes are.
C8_DeviceInfoPrefix ==
  (Len(reply) >= 2 /\ reply[1] = DEVICE_INFO) =>
    (~outcome.threw /\ outcome.value = "DEVICE_INFO")

\* the opcode followed by two other bytes was classified DEVICE_INFO
C8_Witness ==
  /\ reply = <<DEVICE_INFO, 1, 0>>
  /\ outcome.value = "DEVICE_INFO"

\* C9: findApiReply throws exactly when no signature matches and byte 0 is
\* not the DEVICE_INFO opcode, and then returns no value.
C9_ThrowsIffUnrecognized ==
  Len(reply) >= 2 =>
    /\ outcome.threw <=> (Matching(reply) = {} /\ reply[1] # DEVICE_INFO)
    /\ outcome.threw => outcome.value = "Error"
    /\ ~outcome.threw =>
         outcome.value \in { API_REPLY[i].key : i \in 1..Len(API_REPLY) }
                           \cup {"DEVICE_INFO"}

\* an unknown buffer made findApiReply throw
C9_Witness ==
  /\ reply = <<2, 255>>
  /\ outcome.threw

\* the registered listener belongs to a pending wait of the given kind
Armed(kind) ==
  /\ listener # 0
  /\ waits[listener].kind = kind
  /\ waits[listener].state = "pending"

DataStep(buf) ==
  \E throws \in BOOLEAN, queued \in 0..(POLL_TRANSFERS - 1) :
    Data(buf, throws, queued)

\* C1: with a read endpoint that never emits data, every getDeviceInfo wait
\* eventually times out, and its data listener has then been removed exactly
\* once.
C1_DeviceInfoTimesOut ==
  \A id \in 1..MaxCalls :
    (Len(waits) >= id /\ waits[id].kind = "info")
      ~> (/\ Len(waits) >= id
          /\ waits[id].state = "timedout"
          /\ waits[id].unsubs = 1)

\* C2: the caller of readFromDeviceUntil observes at most one outcome, the
\* one the wait settled with, and exactly one once the timer has fired,
\* whether or not a buffer was taken before or after.
C2_SettlesOnce ==
  \A id \in 1..Len(waits) :
    waits[id].kind = "until" =>
      /\ Len(waits[id].observed) <= 1
      /\ waits[id].timer = "fired" => Len(waits[id].observed) = 1
      /\ waits[id].state = "pending" <=> waits[id].observed = <<>>
      /\ waits[id].state = "resolved" => waits[id].observed = <<"frame">>
      /\ waits[id].state = "timedout" => waits[id].observed = <<"WaitTimedOut">>

\* the timer of a wait fired although a buffer had resolved it, or a buffer
\* was taken after the timeout: one outcome
C2_Witness ==
  \E id \in 1..Len(waits) :
    /\ waits[id].kind = "until"
    /\ waits[id].timer = "fired"
    /\ waits[id].state = "resolved"
    /\ waits[id].observed = <<"frame">>

\* C3: a wait that has settled, by a buffer or by timeout, has had its data
\* listener removed and polling is stopped.
C3_CleanupOnSettle ==
  \A id \in 1..Len(waits) :
    waits[id].state \in {"resolved", "timedout"} =>
      /\ listener # id
      /\ waits[id].unsubs = 1
      /\ ~pollActive

\* C4: a buffer delivered to the listener of a pending readFromDeviceUntil
\* wait resolves it if its first two bytes equal those of type, and is
\* ignored, wait pending and polling running, if they differ.
C4_ResolvesOnMatch ==
  [][\A buf \in Frames :
       (Armed("until") /\ DataStep(buf)) =>
         IF SubSeq(buf, 1, 2) = SubSeq(waits[listener].type, 1, 2)
         THEN /\ waits'[listener].state = "resolved"
              /\ waits'[listener].value = buf
         ELSE /\ waits'[listener].state = "pending"
              /\ pollActive /\ pollActive']_vars

\* C5: a buffer delivered to the listener of a pending getDeviceInfo wait
\* resolves it with that buffer and stops polling if byte 0 is the
\* DEVICE_INFO opcode, and otherwise leaves it pending with polling running;
\* a resolved wait keeps the buffer it was resolved with.
C5_DeviceInfoWait ==
  [][/\ \A buf \in Frames :
          (Armed("info") /\ DataStep(buf)) =>
            IF buf[1] = DEVICE_INFO
            THEN /\ waits'[listener].state = "resolved"
                 /\ waits'[listener].value = buf
                 /\ ~pollActive'
            ELSE /\ waits'[listener].state = "pending"
                 /\ listener' = listener
                 /\ pollActive /\ pollActive'
     /\ \A id \in 1..Len(waits) :
          (waits[id].kind = "info" /\ waits[id].state = "resolved") =>
            /\ waits'[id].state = "resolved"
            /\ waits'[id].value = waits[id].value]_vars

\* a getDeviceInfo wait let a buffer pass and was then resolved by a
\* DEVICE_INFO buffer
C5_Witness ==
  \E id \in 1..Len(waits) :
    /\ waits[id].kind = "info"
    /\ waits[id].ignored
    /\ waits[id].state = "resolved"
    /\ waits[id].value = <<DEVICE_INFO, 1>>

\* C10: every command method call makes exactly one transfer on the write
\* endpoint, and a getDeviceInfo call that has resolved has registered its
\* data listener once and has had it removed once.
C10_OneWriteOneCycle ==
  /\ [][(calls' = calls + 1 /\ last'.op \in CommandOps)
          => Len(wire') = Len(wire) + 1]_vars
  /\ [](\A id \in 1..Len(waits) :
          (waits[id].kind = "info" /\ waits[id].state = "resolved") =>
            (waits[id].subs = 1 /\ waits[id].unsubs = 1))

\* C11: every command method invocation that reaches writeToDevice appends
\* the frame of that invocation behind the frames submitted before it,
\* whether or not their completion callbacks have fired; the frames already
\* submitted keep their order, and no other step submits a frame.
C11_WriteOrder ==
  [][/\ (calls' = calls + 1 /\ last'.op \in CommandOps /\ ~last'.threw) =>
          /\ Len(wire') = Len(wire) + 1
          /\ SubSeq(wire', 1, Len(wire)) = wire
          /\ wire'[Len(wire')].frame = Documented(last'.op, last'.args)
     /\ (calls' = calls /\ opened) => wire' = wire]_vars

\* color then strobe were invoked before any completion callback fired, and
\* their frames are queued in that order behind the frame of init
C11_Witness ==
  /\ Len(wire) = 3
  /\ acked = 0
  /\ wire[2].frame = Documented("color", <<7, 7, 7, 7>>)
  /\ wire[3].frame = Documented("strobe", <<7, 7, 7, 7, 7, 7>>)

\* C12: a command method called with a field outside 0..255 ends with a
\* thrown error and submits no frame: the transfers already submitted are
\* unchanged, and the offset of that field has not been written with a
\* truncation of the value.
C12_OutOfRangeRejected ==
  [][(calls' = calls + 1 /\ last'.op \in CommandOps /\ ~InRange(last'.args)) =>
       /\ last'.threw
       /\ wire' = wire
       /\ \E k \in DOMAIN written' : written'[k] = 0]_vars

\* strobe called with repeat = 256 threw after writing the other offsets
\* and submitted nothing behind the frame of init
C12_Witness ==
  /\ last = [op |-> "strobe", args |-> <<7, 7, 7, 7, 7, 256>>, threw |-> TRUE]
  /\ Len(wire) = 1
  /\ written = <<1, 1, 1, 1, 1, 1, 1, 0>>

\* C13: a transfer that failed is reported to the caller as a failure: its
\* completion neither invokes the caller's callback as for a success nor
\* drops the error.
C13_FailurePropagated ==
  \A k \in 1..Len(told) : told[k].error => told[k].callback = "failed"

\* C19: the Buffer object handed to the transport with each transfer still
\* holds the bytes its own call encoded, whatever commands were invoked
\* after it and whether or not the transfer has completed.
C19_FrameNotMutated ==
  \A k \in 1..Len(wire) :
    /\ wire[k].ref \in 1..Len(heap)
    /\ heap[wire[k].ref] = wire[k].frame

\* two commands were invoked while the transfer of the first was still in
\* flight, and the object of the first still holds the color frame
C19_Witness ==
  /\ Len(wire) = 3
  /\ acked < 2
  /\ wire[2].frame = Documented("color", <<7, 7, 7, 7>>)
  /\ wire[3].frame = Documented("wave", <<7, 7, 7, 7, 7, 7>>)
  /\ heap[wire[2].ref] = wire[2].frame
  /\ wire[2].ref # wire[3].ref

\* the waits whose data listener is registered
Owners == { id \in 1..Len(waits) : waits[id].subs > waits[id].unsubs }

\* C14 as claimed: a wait is never armed while another wait of the session
\* is still unsettled.
C14_NoOverlappingWaits ==
  [][Len(waits') > Len(waits) =>
       \A id \in 1..Len(waits) : waits[id].state # "pending"]_vars

\* C14 as amended: at most one wait has its data listener registered, and
\* it is the most recently armed one.
C14_OneSubscriptionOwner ==
  /\ Cardinality(Owners) <= 1
  /\ \A id \in Owners : id = Len(waits) /\ listener = id
  /\ waits # <<>> => Owners = {Len(waits)}

\* two waits are unsettled at once and only the second owns the listener
C14_Witness ==
  /\ Len(waits) = 2
  /\ waits[1].state = "pending"
  /\ waits[2].state = "pending"
  /\ Owners = {2}

\* C15: once a wait has timed out, a buffer delivered to its listener does
\* not stop polling and does not change the outcome; once a wait has been
\* resolved, its timer firing changes neither the outcome nor the read
\* endpoint.
C15_LoserHasNoEffect ==
  [][/\ \A buf \in Frames :
          (/\ listener # 0
           /\ waits[listener].state = "timedout"
           /\ DataStep(buf)) =>
            /\ pollActive' = pollActive
            /\ waits'[listener].state = "timedout"
            /\ waits'[listener].observed = waits[listener].observed
     /\ \A id \in 1..Len(waits) :
          (waits[id].state = "resolved" /\ TimerFire(id)) =>
            /\ waits'[id].state = "resolved"
            /\ waits'[id].value = waits[id].value
            /\ waits'[id].observed = waits[id].observed
            /\ UNCHANGED << listener, pollActive >>]_vars

\* C16: a wait behind which another wait has been armed has lost its data
\* listener for good: it is never resolved afterwards, and a buffer the
\* read endpoint emits changes no wait but the most recently armed one.
C16_SupersededWaitDropped ==
  [][/\ \A id \in 1..Len(waits) :
          id < Len(waits) =>
            /\ listener # id /\ listener' # id
            /\ waits[id].unsubs = 1
            /\ waits[id].state = "pending" => waits'[id].state # "resolved"
     /\ \A buf \in Frames :
          DataStep(buf) =>
            \A id \in 1..Len(waits) :
              id # Len(waits) => waits'[id] = waits[id]]_vars

\* a getDeviceInfo wait is still pending although a DEVICE_INFO buffer
\* arrived: the buffer resolved the wait armed after it
C16_Witness ==
  /\ Len(waits) = 2
  /\ waits[1].kind = "info"
  /\ waits[1].state = "pending"
  /\ waits[2].kind = "info"
  /\ waits[2].state = "resolved"
  /\ waits[2].value = <<DEVICE_INFO, 0>>

WriteOnlyOps == CommandOps \ {"getDeviceInfo"}

\* C17: a write-only command method changes nothing of the read side (the
\* listener, the polling, the waits) nor of the session setup: it replaces
\* the write buffer and makes one transfer of it.
C17_WriteOnlyLeavesReadSide ==
  [][(calls' = calls + 1 /\ last'.op \in WriteOnlyOps /\ ~last'.threw) =>
       /\ UNCHANGED << listener, pollActive, late, waits >>
       /\ UNCHANGED << setup, acked, cbCalls, told >>
       /\ Len(wire') = Len(wire) + 1
       /\ SubSeq(wire', 1, Len(wire)) = wire
       /\ wire'[Len(wire')].frame = buffer']_vars

\* wave was invoked while a wait was pending with polling running
C17_Witness ==
  /\ last.op = "wave"
  /\ Len(waits) = 1
  /\ waits[1].state = "pending"
  /\ listener = 1
  /\ pollActive

SetupOrder(detach) ==
  <<"open">> \o (IF detach THEN <<"detachKernelDriver">> ELSE <<>>)
  \o <<"claim", "endpoint", "endpoint", "transfer">>

\* C18: init opens the device, detaches the kernel driver exactly when one
\* is active, claims the interface, obtains the two endpoints and only then
\* makes its single transfer, of the frame [0, 0]; nothing is transferred
\* before.
C18_InitOrder ==
  /\ [][(~opened /\ opened') =>
          /\ last'.op = "init"
          /\ setup' = SetupOrder(last'.args[1])
          /\ wire = <<>>
          /\ Len(wire') = 1
          /\ wire'[1].frame = <<0, 0>>]_vars
  /\ [](~opened => wire = <<>>)
  /\ [](opened => setup \in {SetupOrder(TRUE), SetupOrder(FALSE)})

\* init ran with an active kernel driver
C18_Witness ==
  /\ setup = SetupOrder(TRUE)
  /\ Len(wire) = 1
  /\ wire[1].frame = <<0, 0>>

\* C20: startPoll is only called while no poll is active and stopPoll only
\* while one is.
C20_PollAlternates ==
  [][/\ Len(waits') > Len(waits) => ~pollActive
     /\ \A buf \in Frames :
          (/\ listener # 0
           /\ accepts(waits[listener], buf)
           /\ DataStep(buf)) => pollActive]_vars

====
